---- MODULE Spec2Model ----
(***************************************************************************)
(* Model of waeup/identifier/testing.py: the fake Kofa XML-RPC service     *)
(* (basic-auth request handler, in-memory student store, the four          *)
(* registered operations) and the VirtualHomeProvider virtual home.        *)
(*                                                                         *)
(* Python str and bytes values are sequences of code points / byte values. *)
(* Python objects that the code inspects with isinstance() are records     *)
(* [type, data].                                                           *)
(***************************************************************************)
EXTENDS Integers, Sequences, FiniteSets, TLC

VARIABLES
    fake_student_db,   \* the module-level dict: student id -> per-student record
    request,           \* the request handled last
    parsed,            \* how parse_request ended for it
    sent_error,        \* the HTTP error status sent by send_error (0: none)
    called,            \* the registered operation the dispatcher invoked ("none")
    response,          \* what the operation returned or raised
    db_before,         \* fake_student_db when the request arrived
    prev_called,       \* `called` of the request before
    ever_created,      \* ids some create_student call has been dispatched for
    since_reset,       \* ids create_student was dispatched for since the last reset
    environ,           \* os.environ restricted to PATH and HOME
    disk,              \* the temporary directories that exist
    orig_vars,         \* VirtualHomeProvider._orig_vars (one dict on the class)
    inst,              \* per instance: path_dir, home_dir and whether it is set up
    pre_env,           \* per instance: environ when its setup began
    alone,             \* per instance: no other instance was set up during its session
    stack,             \* the instances set up and not torn down, oldest first
    last               \* the virtual-home operation performed last and how it ended

svars == <<fake_student_db, request, parsed, sent_error, called, response,
           db_before, prev_called, ever_created, since_reset>>
hvars == <<environ, disk, orig_vars, inst, pre_env, alone, stack, last>>
vars == <<svars, hvars>>

(***************************************************************************)
(* Text: the ASCII characters the inputs are written with.                 *)
(***************************************************************************)
Digits == << "0", "1", "2", "3", "4", "5", "6", "7", "8", "9" >>
Upper ==
    << "A", "B", "C", "D", "E", "F", "G", "H", "I", "J", "K", "L", "M",
       "N", "O", "P", "Q", "R", "S", "T", "U", "V", "W", "X", "Y", "Z" >>
Lower ==
    << "a", "b", "c", "d", "e", "f", "g", "h", "i", "j", "k", "l", "m",
       "n", "o", "p", "q", "r", "s", "t", "u", "v", "w", "x", "y", "z" >>
Symbols == << " ", "+", "-", "/", ":", "=" >>
SymbolCodes == << 32, 43, 45, 47, 58, 61 >>

IndexOf(tbl, c) == CHOOSE i \in 1..Len(tbl) : tbl[i] = c
InTable(tbl, c) == \E i \in 1..Len(tbl) : tbl[i] = c

\* the code point of a character
Ord(c) ==
    IF InTable(Digits, c) THEN 47 + IndexOf(Digits, c)
    ELSE IF InTable(Upper, c) THEN 64 + IndexOf(Upper, c)
    ELSE IF InTable(Lower, c) THEN 96 + IndexOf(Lower, c)
    ELSE SymbolCodes[IndexOf(Symbols, c)]

\* a str literal, written as a tuple of characters, as its code points
Str(cs) == [i \in 1..Len(cs) |-> Ord(cs[i])]

None == [type |-> "NoneType", data |-> <<>>]

Raise(exc) == [kind |-> "raise", value |-> exc]
Return(v) == [kind |-> "return", value |-> v]
(***************************************************************************)
(* Library functions the handler calls, modelled by what they compute.     *)
(***************************************************************************)
RECURSIVE FindFrom(_, _, _)
\* the first index >= i of code point c in s, 0 if there is none
FindFrom(s, c, i) ==
    IF i > Len(s) THEN 0
    ELSE IF s[i] = c THEN i
    ELSE FindFrom(s, c, i + 1)

\* str.partition(sep) for a one-character separator
Partition(s, sep) ==
    LET i == FindFrom(s, sep, 1) IN
    IF i = 0 THEN << s, <<>>, <<>> >>
    ELSE << SubSeq(s, 1, i - 1), << sep >>, SubSeq(s, i + 1, Len(s)) >>

\* the value of a base64 alphabet character, -1 for any other byte
B64Val(c) ==
    IF c >= 65 /\ c <= 90 THEN c - 65
    ELSE IF c >= 97 /\ c <= 122 THEN c - 71
    ELSE IF c >= 48 /\ c <= 57 THEN c + 4
    ELSE IF c = 43 THEN 62
    ELSE IF c = 47 THEN 63
    ELSE -1

RECURSIVE A2bBase64(_, _, _, _, _, _)
\* binascii.a2b_base64 in its lenient mode: bytes outside the alphabet are
\* discarded, a completed pad sequence ends the input, an incomplete quad is
\* an error
A2bBase64(data, i, quad_pos, leftchar, pads, out) ==
    IF i > Len(data)
    THEN IF quad_pos # 0 THEN Raise("binascii.Error") ELSE Return(out)
    ELSE IF data[i] = 61
    THEN IF quad_pos >= 2 /\ quad_pos + pads + 1 >= 4
         THEN Return(out)
         ELSE A2bBase64(data, i + 1, quad_pos, leftchar,
                        IF quad_pos >= 2 THEN pads + 1 ELSE pads, out)
    ELSE LET this_ch == B64Val(data[i]) IN
         IF this_ch = -1
         THEN A2bBase64(data, i + 1, quad_pos, leftchar, pads, out)
         ELSE CASE quad_pos = 0 ->
                  A2bBase64(data, i + 1, 1, this_ch, 0, out)
              [] quad_pos = 1 ->
                  A2bBase64(data, i + 1, 2, this_ch % 16, 0,
                            Append(out, leftchar * 4 + (this_ch \div 16)))
              [] quad_pos = 2 ->
                  A2bBase64(data, i + 1, 3, this_ch % 4, 0,
                            Append(out, leftchar * 16 + (this_ch \div 4)))
              [] quad_pos = 3 ->
                  A2bBase64(data, i + 1, 0, 0, 0,
                            Append(out, leftchar * 64 + this_ch))

b64decode(s) == A2bBase64(s, 1, 0, 0, 0, <<>>)

IsCont(bs, i) == i <= Len(bs) /\ bs[i] >= 128 /\ bs[i] <= 191

RECURSIVE Utf8Decode(_, _, _)
\* bytes.decode(): the code points of a UTF-8 byte string, or UnicodeDecodeError
Utf8Decode(bs, i, out) ==
    IF i > Len(bs) THEN Return(out)
    ELSE LET b == bs[i] IN
      IF b < 128 THEN Utf8Decode(bs, i + 1, Append(out, b))
      ELSE IF b >= 194 /\ b <= 223 /\ IsCont(bs, i + 1)
      THEN Utf8Decode(bs, i + 2, Append(out, (b - 192) * 64 + (bs[i + 1] - 128)))
      ELSE IF b >= 224 /\ b <= 239 /\ IsCont(bs, i + 1) /\ IsCont(bs, i + 2)
              /\ (b = 224 => bs[i + 1] >= 160) /\ (b = 237 => bs[i + 1] <= 159)
      THEN Utf8Decode(bs, i + 3,
               Append(out, (b - 224) * 4096 + (bs[i + 1] - 128) * 64 + (bs[i + 2] - 128)))
      ELSE IF b >= 240 /\ b <= 244 /\ IsCont(bs, i + 1) /\ IsCont(bs, i + 2)
              /\ IsCont(bs, i + 3)
              /\ (b = 240 => bs[i + 1] >= 144) /\ (b = 244 => bs[i + 1] <= 143)
      THEN Utf8Decode(bs, i + 4,
               Append(out, (b - 240) * 262144 + (bs[i + 1] - 128) * 4096
                           + (bs[i + 2] - 128) * 64 + (bs[i + 3] - 128)))
      ELSE Raise("UnicodeDecodeError")

decode(bs) == Utf8Decode(bs, 1, <<>>)

\* the UTF-8 bytes of one code point
Utf8Bytes(c) ==
    IF c < 128 THEN << c >>
    ELSE IF c < 2048 THEN << 192 + (c \div 64), 128 + (c % 64) >>
    ELSE IF c < 65536
    THEN << 224 + (c \div 4096), 128 + ((c \div 64) % 64), 128 + (c % 64) >>
    ELSE << 240 + (c \div 262144), 128 + ((c \div 4096) % 64),
            128 + ((c \div 64) % 64), 128 + (c % 64) >>

RECURSIVE Utf8Encode(_, _)
Utf8Encode(s, i) ==
    IF i > Len(s) THEN <<>> ELSE Utf8Bytes(s[i]) \o Utf8Encode(s, i + 1)

\* str.encode()
encode(s) == Utf8Encode(s, 1)
IsSpace(c) == c = 32 \/ (c >= 9 /\ c <= 13)
IsDigit(c) == c >= 48 /\ c <= 57

RECURSIVE Strip(_)
\* str.strip()
Strip(s) ==
    IF s = <<>> THEN s
    ELSE IF IsSpace(s[1]) THEN Strip(Tail(s))
    ELSE IF IsSpace(s[Len(s)]) THEN Strip(SubSeq(s, 1, Len(s) - 1))
    ELSE s

RECURSIVE DigitsValue(_, _, _)
\* the value of a run of ASCII digits in which single underscores may separate
\* digits, -1 if s from i on is not such a run
DigitsValue(s, i, acc) ==
    IF i > Len(s) THEN acc
    ELSE IF IsDigit(s[i]) THEN DigitsValue(s, i + 1, acc * 10 + (s[i] - 48))
    ELSE IF s[i] = 95 /\ i > 1 /\ IsDigit(s[i - 1]) /\ i < Len(s) /\ IsDigit(s[i + 1])
    THEN DigitsValue(s, i + 1, acc)
    ELSE -1

\* int(str) in base 10 for ASCII text: surrounding whitespace and one sign allowed
PyInt(str_key) ==
    LET t == Strip(str_key)
        signed == t # <<>> /\ (t[1] = 43 \/ t[1] = 45)
        body == IF signed THEN Tail(t) ELSE t
        v == IF body = <<>> \/ ~IsDigit(body[1]) THEN -1 ELSE DigitsValue(body, 1, 0)
    IN IF v = -1 THEN Raise("ValueError")
       ELSE Return(IF signed /\ t[1] = 45 THEN 0 - v ELSE v)

\* bytes.startswith(prefix)
StartsWith(bs, prefix) ==
    Len(bs) >= Len(prefix) /\ SubSeq(bs, 1, Len(prefix)) = prefix

(***************************************************************************)
(* AuthenticatingXMLRPCRequestHandler                                      *)
(***************************************************************************)
Basic == Str(<< "B", "a", "s", "i", "c" >>)
mgr == Str(<< "m", "g", "r" >>)
mgrpw == Str(<< "m", "g", "r", "p", "w" >>)

\* lines 126-129: the decoded credentials, split at the first colon and compared
CheckCreds(text) ==
    IF text.kind = "raise" THEN text
    ELSE LET q == Partition(text.value, 58)
             user_name == q[1]
             password == q[3]
         IN IF user_name = mgr /\ password = mgrpw
            THEN Return(TRUE)
            ELSE Return(FALSE)

\* lines 125-126: the bytes b64decode produced, decoded as text
DecodeCreds(decoded_creds) ==
    IF decoded_creds.kind = "raise" THEN decoded_creds
    ELSE CheckCreds(decode(decoded_creds.value))

\* lines 122-125: the header line split at the first space
CheckScheme(p) ==
    LET auth_type == p[1]
        encoded_creds == p[3]
    IN IF auth_type # Basic THEN Return(FALSE)
       ELSE DecodeCreds(b64decode(encode(encoded_creds)))

\* authenticate(headers): Return(TRUE), Return(FALSE) or the exception raised
authenticate(headers) ==
    LET auth_header_line == headers.Authorization IN
    IF auth_header_line = None THEN Return(FALSE)
    ELSE CheckScheme(Partition(auth_header_line.data, 32))

\* lines 133-137: what parse_request does with authenticate's outcome
AfterAuthenticate(a) ==
    IF a.kind = "raise" THEN [ret |-> a, sent |-> 0]
    ELSE IF a.value THEN [ret |-> Return(TRUE), sent |-> 0]
    ELSE [ret |-> Return(FALSE), sent |-> 401]

\* parse_request(): how it ends and the error status it sent.  The base
\* class's parse_request answers a request it cannot parse itself (400) and
\* returns False.
parse_request(req) ==
    IF req.http_ok
    THEN AfterAuthenticate(authenticate(req.headers))
    ELSE [ret |-> Return(FALSE), sent |-> 400]

(***************************************************************************)
(* The fake student database and the registered operations.  Each          *)
(* operation yields what it returned or raised and the database it leaves. *)
(***************************************************************************)
INVALID_METHOD_PARAMS == -32602

Fault(code, fmt, arg) == [faultCode |-> code, fmt |-> fmt, arg |-> arg]

UsedOids(db) == { db[k].oid : k \in DOMAIN db }

\* dict(): a new, empty dict object, distinct from every dict in the database
NewDict(db) ==
    [oid |-> CHOOSE n \in 0..Cardinality(DOMAIN db) :
                 n \notin UsedOids(db) /\ \A m \in 0..(n - 1) : m \in UsedOids(db),
     items |-> <<>>]

xmlrpc_ping(db, x) == [ret |-> Return(<< "pong", x >>), db |-> db]

\* a reset that empties every record and keeps the identifiers
reset_KeepsStudents(db) ==
    [ret |-> Return(TRUE), db |-> [k \in DOMAIN db |-> [db[k] EXCEPT !.items = <<>>]]]

xmlrpc_reset_student_db(db) == [ret |-> Return(TRUE), db |-> <<>>]

\* a create that inserts a new record whether or not the identifier has one
create_AlwaysNewRecord(db, student_id) ==
    [ret |-> Return(TRUE),
     db |-> [k \in DOMAIN db \cup {student_id} |->
                 IF k = student_id THEN NewDict(db) ELSE db[k]]]

xmlrpc_create_student(db, student_id) ==
    [ret |-> Return(TRUE),
     db |-> IF student_id \notin DOMAIN db
            THEN [k \in DOMAIN db \cup {student_id} |->
                      IF k = student_id THEN NewDict(db) ELSE db[k]]
            ELSE db]

\* int(str_key) with ValueError swallowed: num stays 0
SlotOf(str_key) ==
    LET n == PyInt(str_key) IN IF n.kind = "raise" THEN 0 ELSE n.value

RECURSIVE FingerLoop_OutOfRangeResets(_, _, _)
\* a loop in which a skipped entry clears the result
FingerLoop_OutOfRangeResets(items, i, result) ==
    IF i > Len(items) THEN Return(result)
    ELSE LET num == SlotOf(items[i][1])
             val == items[i][2]
         IN IF num < 1 \/ num > 10 THEN FingerLoop_OutOfRangeResets(items, i + 1, FALSE)
            ELSE IF val.type # "Binary"
            THEN Raise(Fault(INVALID_METHOD_PARAMS,
                             "Invalid fingerprint data for finger %s", ToString(num)))
            ELSE IF ~StartsWith(val.data, << 70, 80, 49 >>)
            THEN Raise(Fault(INVALID_METHOD_PARAMS,
                             "Invalid file format for finger %s", ToString(num)))
            ELSE FingerLoop_OutOfRangeResets(items, i + 1, TRUE)

RECURSIVE FingerLoop_TypeCheckFirst(_, _, _)
\* a loop that tests the value's type before the slot's range
FingerLoop_TypeCheckFirst(items, i, result) ==
    IF i > Len(items) THEN Return(result)
    ELSE LET num == SlotOf(items[i][1])
             val == items[i][2]
         IN IF val.type # "Binary"
            THEN Raise(Fault(INVALID_METHOD_PARAMS,
                             "Invalid fingerprint data for finger %s", ToString(num)))
            ELSE IF num < 1 \/ num > 10
            THEN FingerLoop_TypeCheckFirst(items, i + 1, result)
            ELSE IF ~StartsWith(val.data, << 70, 80, 49 >>)
            THEN Raise(Fault(INVALID_METHOD_PARAMS,
                             "Invalid file format for finger %s", ToString(num)))
            ELSE FingerLoop_TypeCheckFirst(items, i + 1, TRUE)

RECURSIVE FingerLoop(_, _, _)
\* the for loop over fingerprints.items(), from entry i on
FingerLoop(items, i, result) ==
    IF i > Len(items) THEN Return(result)
    ELSE LET num == SlotOf(items[i][1])
             val == items[i][2]
         IN IF num < 1 \/ num > 10 THEN FingerLoop(items, i + 1, result)
            ELSE IF val.type # "Binary"
            THEN Raise(Fault(INVALID_METHOD_PARAMS,
                             "Invalid fingerprint data for finger %s", ToString(num)))
            ELSE IF ~StartsWith(val.data, << 70, 80, 49 >>)
            THEN Raise(Fault(INVALID_METHOD_PARAMS,
                             "Invalid file format for finger %s", ToString(num)))
            ELSE FingerLoop(items, i + 1, TRUE)

\* the first two tests in the other order
put_DictCheckFirst(db, identifier, fingerprints) ==
    [ret |-> IF fingerprints.type # "dict"
             THEN Raise(Fault(INVALID_METHOD_PARAMS,
                              "Invalid fingerprint data: must be dict'", ""))
             ELSE IF identifier \notin DOMAIN db
             THEN Raise(Fault(INVALID_METHOD_PARAMS, "No such student: '%s'", identifier))
             ELSE FingerLoop(fingerprints.data, 1, FALSE),
     db |-> db]

xmlrpc_put_student_fingerprints(db, identifier, fingerprints) ==
    [ret |-> IF identifier \notin DOMAIN db
             THEN Raise(Fault(INVALID_METHOD_PARAMS, "No such student: '%s'", identifier))
             ELSE IF fingerprints.type # "dict"
             THEN Raise(Fault(INVALID_METHOD_PARAMS,
                              "Invalid fingerprint data: must be dict'", ""))
             ELSE FingerLoop(fingerprints.data, 1, FALSE),
     db |-> db]

\* the names __init__ registers functions under
Registered == { "ping", "create_student", "reset_student_db", "put_student_fingerprints" }

\* the dispatcher: the function registered under the method name, applied to
\* the request's parameters
Dispatch(db, method, params) ==
    CASE method = "ping" -> xmlrpc_ping(db, params[1])
      [] method = "create_student" -> xmlrpc_create_student(db, params[1])
      [] method = "reset_student_db" -> xmlrpc_reset_student_db(db)
      [] method = "put_student_fingerprints" ->
             xmlrpc_put_student_fingerprints(db, params[1], params[2])
(***************************************************************************)
(* Requests: the inputs the handler is exercised with.                     *)
(***************************************************************************)
MaxEntries == 2

StrObj(codes) == [type |-> "str", data |-> codes]
Binary(bytes) == [type |-> "Binary", data |-> bytes]

HeaderLine(scheme, payload) == StrObj(scheme \o << 32 >> \o Str(payload))

\* Basic base64("mgr:mgrpw")
GoodHeader ==
    HeaderLine(Basic, << "b", "W", "d", "y", "O", "m", "1", "n", "c", "n", "B", "3" >>)
\* Basic base64("mgr:wrong")
WrongPassword ==
    HeaderLine(Basic, << "b", "W", "d", "y", "O", "n", "d", "y", "b", "2", "5", "n" >>)
\* Basic base64("bob:mgrpw")
WrongUser ==
    HeaderLine(Basic, << "Y", "m", "9", "i", "O", "m", "1", "n", "c", "n", "B", "3" >>)
\* Bearer base64("mgr:mgrpw")
OtherScheme ==
    HeaderLine(Str(<< "B", "e", "a", "r", "e", "r" >>),
               << "b", "W", "d", "y", "O", "m", "1", "n", "c", "n", "B", "3" >>)
\* Basic abc: an incomplete base64 quad
BadBase64 == HeaderLine(Basic, << "a", "b", "c" >>)
\* Basic /w==: base64 of the single byte 0xFF, which is no UTF-8 text
NotText == HeaderLine(Basic, << "/", "w", "=", "=" >>)
\* Basic base64("mgr"): no colon
NoColon == HeaderLine(Basic, << "b", "W", "d", "y" >>)

MalformedHeaders == { BadBase64, NotText, NoColon }
AuthHeaders ==
    { None, GoodHeader, WrongPassword, WrongUser, OtherScheme } \cup MalformedHeaders

StudentIds == { "S1", "S2" }
PingArgs == { None, StrObj(Str(<< "x" >>)) }

KeyPool == { Str(<< "1" >>), Str(<< "1", "0" >>), Str(<< "1", "1" >>), Str(<< "x" >>) }
GoodPayload == Binary(<< 70, 80, 49, 0 >>)        \* b"FP1\x00"
BadPayload == Binary(<< 66, 65, 68 >>)            \* b"BAD"
NotBinary == StrObj(<< 70, 80, 49, 0 >>)          \* "FP1\x00", not wrapped
ValPool == { GoodPayload, BadPayload, NotBinary }

\* the items of every dict of at most MaxEntries entries, in iteration order
ItemLists ==
    UNION { { f \in [1..n -> KeyPool \X ValPool] :
                \A i, j \in 1..n : i # j => f[i][1] # f[j][1] } : n \in 0..MaxEntries }
Dict(items) == [type |-> "dict", data |-> items]
NotDicts == { None, StrObj(Str(<< "1" >>)) }

NoRequest == [headers |-> [Authorization |-> None], http_ok |-> FALSE,
              method |-> "none", params |-> <<>>]
Req(hdr, method, params) ==
    [headers |-> [Authorization |-> hdr], http_ok |-> TRUE,
     method |-> method, params |-> params]

NoResponse == [kind |-> "none", value |-> <<>>]

(***************************************************************************)
(* One request handled to completion: parse_request, then, only when it    *)
(* returned True, the dispatch of the request's method.                    *)
(***************************************************************************)
Dispatched(req, p, go) ==
    LET r == Dispatch(fake_student_db, req.method, req.params) IN
       /\ request' = req
       /\ parsed' = p.ret
       /\ sent_error' = p.sent
       /\ db_before' = fake_student_db
       /\ prev_called' = called
       /\ called' = IF go THEN req.method ELSE "none"
       /\ response' = IF go THEN r.ret ELSE NoResponse
       /\ fake_student_db' = IF go THEN r.db ELSE fake_student_db
       /\ ever_created' = IF go /\ req.method = "create_student"
                          THEN ever_created \cup { req.params[1] }
                          ELSE ever_created
       /\ since_reset' = IF go /\ req.method = "create_student"
                         THEN since_reset \cup { req.params[1] }
                         ELSE IF go /\ req.method = "reset_student_db" THEN {}
                         ELSE since_reset
       /\ UNCHANGED hvars

Parsed(req, p) == Dispatched(req, p, p.ret.kind = "return" /\ p.ret.value)

Handle(req) == Parsed(req, parse_request(req))

\* the fingerprints arguments the service is exercised with between other
\* requests; PutSpec below applies the operation to every mapping of ItemLists
SampleItems ==
    { <<>>,
      << << Str(<< "1" >>), GoodPayload >> >>,
      << << Str(<< "1" >>), BadPayload >> >>,
      << << Str(<< "1", "1" >>), GoodPayload >> >> }

FingerprintArgs == { Dict(items) : items \in SampleItems } \cup NotDicts

\* a request the base class cannot parse (bad request line or headers)
BadHttpRequest ==
    /\ ~NoRequest.http_ok
    /\ Handle(NoRequest)

Ping ==
    \E h \in AuthHeaders, x \in PingArgs :
        /\ "ping" \in Registered
        /\ Handle(Req(h, "ping", << x >>))

ResetStudentDb ==
    \E h \in AuthHeaders :
        /\ "reset_student_db" \in Registered
        /\ Handle(Req(h, "reset_student_db", <<>>))

CreateStudent ==
    \E h \in AuthHeaders, id \in StudentIds :
        /\ "create_student" \in Registered
        /\ Handle(Req(h, "create_student", << id >>))

PutStudentFingerprints ==
    \E h \in AuthHeaders, id \in StudentIds, v \in FingerprintArgs :
        /\ "put_student_fingerprints" \in Registered
        /\ Handle(Req(h, "put_student_fingerprints", << id, v >>))

ServiceInit ==
    /\ fake_student_db = <<>>
    /\ request = NoRequest
    /\ parsed = NoResponse
    /\ sent_error = 0
    /\ called = "none"
    /\ response = NoResponse
    /\ db_before = <<>>
    /\ prev_called = "none"
    /\ ever_created = {}
    /\ since_reset = {}

(***************************************************************************)
(* VirtualHomeProvider.  os.environ is a dict over the two variable names; *)
(* _orig_vars is the dict created once in the class body, which every      *)
(* instance reaches through self._orig_vars.                               *)
(***************************************************************************)
NumTmp == 4

VarNames == << "PATH", "HOME" >>
Instances == { "A", "B" }
TmpDirs == { "/tmp/tmp" \o ToString(n) : n \in 1..NumTmp }

PyNone == [type |-> "NoneType", str |-> ""]
PyStr(s) == [type |-> "str", str |-> s]

\* os.environ.get(var_name)
EnvGet(env, var_name) ==
    IF var_name \in DOMAIN env THEN PyStr(env[var_name]) ELSE PyNone

\* d[k] = v on a dict
DictSet(d, k, v) == [x \in DOMAIN d \cup {k} |-> IF x = k THEN v ELSE d[x]]
\* del d[k]
DictDel(d, k) == [x \in DOMAIN d \ {k} |-> d[x]]

\* the dict an instance's self._orig_vars names
OrigVarsOf(i) == orig_vars

RECURSIVE RecordVars(_, _, _)
\* setup's loop: self._orig_vars[var_name] = os.environ.get(var_name)
RecordVars(orig, env, n) ==
    IF n > Len(VarNames) THEN orig
    ELSE RecordVars(DictSet(orig, VarNames[n], EnvGet(env, VarNames[n])), env, n + 1)

RECURSIVE RestoreVars_LeavesUnsetVars(_, _, _)
\* a restore that leaves a variable alone when it was unset before setup
RestoreVars_LeavesUnsetVars(orig, env, n) ==
    IF n > Len(VarNames) THEN [exc |-> "none", env |-> env]
    ELSE LET var_name == VarNames[n] IN
         IF var_name \notin DOMAIN orig THEN [exc |-> "KeyError", env |-> env]
         ELSE IF orig[var_name].type = "NoneType"
         THEN RestoreVars_LeavesUnsetVars(orig, env, n + 1)
         ELSE RestoreVars_LeavesUnsetVars(
                  orig, DictSet(env, var_name, orig[var_name].str), n + 1)

RECURSIVE RestoreVars(_, _, _)
\* teardown's loop: the environment it leaves and the exception that ended it
RestoreVars(orig, env, n) ==
    IF n > Len(VarNames) THEN [exc |-> "none", env |-> env]
    ELSE LET var_name == VarNames[n] IN
         IF var_name \notin DOMAIN orig THEN [exc |-> "KeyError", env |-> env]
         ELSE IF orig[var_name].type = "NoneType"
         THEN IF var_name \in DOMAIN env
              THEN RestoreVars(orig, DictDel(env, var_name), n + 1)
              ELSE [exc |-> "KeyError", env |-> env]
         ELSE RestoreVars(orig, DictSet(env, var_name, orig[var_name].str), n + 1)

\* shutil.rmtree(d) if os.path.exists(d)
RemoveIfExists(dsk, d) == IF d \in dsk THEN dsk \ {d} ELSE dsk

Top(stk) == IF stk = <<>> THEN "" ELSE stk[Len(stk)]
Without(stk, i) == SelectSeq(stk, LAMBDA x : x # i)

NoInstance == [path_dir |-> "", home_dir |-> "", active |-> FALSE]

\* setup_virtual_home, called by setUp on a new test case instance
setup_virtual_home(i) ==
    /\ ~inst[i].active
    /\ \E path_dir \in TmpDirs \ disk :
         \E home_dir \in TmpDirs \ (disk \cup {path_dir}) :
           /\ disk' = disk \cup {path_dir, home_dir}
           /\ inst' = [inst EXCEPT ![i] = [path_dir |-> path_dir,
                                           home_dir |-> home_dir, active |-> TRUE]]
           /\ orig_vars' = RecordVars(OrigVarsOf(i), environ, 1)
           /\ environ' = DictSet(DictSet(environ, "PATH", path_dir), "HOME", home_dir)
           /\ pre_env' = [pre_env EXCEPT ![i] = environ]
           /\ alone' = [j \in Instances |->
                          IF j = i THEN \A k \in Instances : ~inst[k].active
                          ELSE alone[j] /\ ~inst[j].active]
           /\ stack' = Append(stack, i)
           /\ last' = [inst |-> i, alone |-> TRUE, exc |-> "none", op |-> "setup",
                       top |-> TRUE, missing |-> 0, pre |-> <<>>, dirs |-> {}]
    /\ UNCHANGED svars

\* teardown_virtual_home, called by tearDown on an instance that is set up;
\* the test runner then drops the instance
teardown_virtual_home(i) ==
    /\ inst[i].active
    /\ LET r == RestoreVars(OrigVarsOf(i), environ, 1) IN
         /\ environ' = r.env
         /\ disk' = IF r.exc = "none"
                    THEN RemoveIfExists(RemoveIfExists(disk, inst[i].path_dir),
                                        inst[i].home_dir)
                    ELSE disk
         /\ last' = [inst |-> i, alone |-> alone[i], exc |-> r.exc, op |-> "teardown",
                     top |-> Top(stack) = i,
                     missing |-> Cardinality({inst[i].path_dir, inst[i].home_dir} \ disk),
                     pre |-> pre_env[i],
                     dirs |-> {inst[i].path_dir, inst[i].home_dir}]
    /\ inst' = [inst EXCEPT ![i] = NoInstance]
    /\ pre_env' = [pre_env EXCEPT ![i] = <<>>]
    /\ alone' = [alone EXCEPT ![i] = TRUE]
    /\ stack' = Without(stack, i)
    /\ UNCHANGED << orig_vars, svars >>

\* the test body removes one of the temporary directories of its instance
BodyRemovesDir(i) ==
    /\ inst[i].active
    /\ \E d \in {inst[i].path_dir, inst[i].home_dir} \cap disk :
         disk' = disk \ {d}
    /\ last' = [inst |-> i, alone |-> TRUE, exc |-> "none", op |-> "body",
                top |-> TRUE, missing |-> 0, pre |-> <<>>, dirs |-> {}]
    /\ UNCHANGED << environ, orig_vars, inst, pre_env, alone, stack, svars >>

Setup == \E i \in Instances : setup_virtual_home(i)
Teardown == \E i \in Instances : teardown_virtual_home(i)
Body == \E i \in Instances : BodyRemovesDir(i)

HomeStart(env) ==
    /\ environ = env
    /\ disk = {}
    /\ orig_vars = <<>>
    /\ inst = [i \in Instances |-> NoInstance]
    /\ pre_env = [i \in Instances |-> <<>>]
    /\ alone = [i \in Instances |-> TRUE]
    /\ stack = <<>>
    /\ last = [inst |-> "", alone |-> TRUE, exc |-> "none", op |-> "none",
               top |-> TRUE, missing |-> 0, pre |-> <<>>, dirs |-> {}]

\* PATH and HOME are each set or unset when the process starts
HomeInit ==
    \E vs \in SUBSET {"PATH", "HOME"} :
        HomeStart([v \in vs |-> IF v = "PATH" THEN "/usr/bin" ELSE "/home/user"])

(***************************************************************************)
(* Specifications: the service handling requests one at a time, the        *)
(* virtual homes of the test cases of one process, and                     *)
(* put_student_fingerprints applied to every argument.                     *)
(***************************************************************************)
UsualEnv == [v \in {"PATH", "HOME"} |-> IF v = "PATH" THEN "/usr/bin" ELSE "/home/user"]

Init == ServiceInit /\ HomeStart(UsualEnv)
Next ==
    \/ BadHttpRequest
    \/ Ping
    \/ ResetStudentDb
    \/ CreateStudent
    \/ PutStudentFingerprints
Spec == Init /\ [][Next]_vars

HomeSpecInit == ServiceInit /\ HomeInit
HomeSpecNext ==
    \/ Setup
    \/ Teardown
    \/ Body
HomeSpec == HomeSpecInit /\ [][HomeSpecNext]_vars

\* put_student_fingerprints as a function of the store and its arguments: an
\* authenticated request for every identifier and every fingerprints argument
\* arrives at a store that earlier create_student calls have left
Stores ==
    LET db1 == xmlrpc_create_student(<<>>, "S1").db
        db2 == xmlrpc_create_student(db1, "S2").db
    IN { <<>>, db1, db2 }

PutArrives ==
    /\ fake_student_db \in Stores
    /\ \E id \in StudentIds :
         \/ \E items \in ItemLists :
              request = Req(GoodHeader, "put_student_fingerprints", << id, Dict(items) >>)
         \/ \E v \in NotDicts :
              request = Req(GoodHeader, "put_student_fingerprints", << id, v >>)
    /\ parsed = NoResponse
    /\ sent_error = 0
    /\ called = "none"
    /\ response = NoResponse
    /\ db_before = fake_student_db
    /\ prev_called = "none"
    /\ ever_created = DOMAIN fake_student_db
    /\ since_reset = DOMAIN fake_student_db

HandleArrived == parsed.kind = "none" /\ Handle(request)

PutSpecInit == PutArrives /\ HomeStart(UsualEnv)
PutSpecNext == HandleArrived
PutSpec == PutSpecInit /\ [][PutSpecNext]_vars
(***************************************************************************)
(* Properties.  The helpers below read the request handled last.           *)
(***************************************************************************)
PutCalled == called = "put_student_fingerprints"
Identifier == request.params[1]
Fingerprints == request.params[2]
KnownStudent == Identifier \in DOMAIN db_before
IsDictArg == Fingerprints.type = "dict"

Returned(b) == response.kind = "return" /\ response.value = b
Faulted(fmt, arg) ==
    response.kind = "raise" /\ response.value = Fault(INVALID_METHOD_PARAMS, fmt, arg)

\* the keys of KeyPool that int() maps into [1,10]: "1" and "10"
InRangeKeys == { Str(<< "1" >>), Str(<< "1", "0" >>) }
InRangeEntry(e) == e[1] \in InRangeKeys
ValidEntry(e) == e[2].type = "Binary" /\ SubSeq(e[2].data, 1, 3) = << 70, 80, 49 >>
Entries(items) == { items[i] : i \in 1..Len(items) }
Rearranged(items) ==
    { [i \in 1..Len(items) |-> items[f[i]]] :
        f \in { g \in [1..Len(items) -> 1..Len(items)] :
                  \A i, j \in 1..Len(items) : i # j => g[i] # g[j] } }

Unauthenticated == request.http_ok /\ request.headers.Authorization # GoodHeader

\* C1: a request whose Authorization header is not the Basic credentials
\* mgr/mgrpw makes parse_request return False, no registered operation is
\* invoked and the record store is the same before and after the request.
C1_RejectedBeforeDispatch ==
    Unauthenticated =>
        /\ parsed.kind = "return" /\ ~parsed.value
        /\ called = "none"
        /\ fake_student_db = db_before

\* C1, the part about the store alone: however parse_request ends for such a
\* request, no operation is invoked and the store is unchanged.
C1_StoreUntouched ==
    Unauthenticated => called = "none" /\ fake_student_db = db_before

\* C2: every request that fails authentication (missing header, other scheme,
\* other credentials, malformed header) has authenticate return False and is
\* answered with send_error(401).
C2_Unauthorized401 ==
    (request.http_ok /\ ~(parsed.kind = "return" /\ parsed.value)) =>
        parsed.kind = "return" /\ sent_error = 401

\* C3: for an existing student and a mapping whose in-range entries are all
\* Binary payloads starting with FP1, put_student_fingerprints returns true
\* exactly when some key is in range, and false otherwise, in whatever order
\* the entries are iterated.
C3_TrueIffInRangeKey ==
    (PutCalled /\ KnownStudent /\ IsDictArg
       /\ \A e \in Entries(Fingerprints.data) : InRangeEntry(e) => ValidEntry(e)) =>
        /\ Returned(\E e \in Entries(Fingerprints.data) : InRangeEntry(e))
        /\ \A items \in Rearranged(Fingerprints.data) :
               xmlrpc_put_student_fingerprints(db_before, Identifier, Dict(items)).ret
                   = response

C3_Witness ==
    /\ PutCalled /\ KnownStudent /\ IsDictArg
    /\ Len(Fingerprints.data) = 2
    /\ \E e \in Entries(Fingerprints.data) : InRangeEntry(e) /\ ValidEntry(e)
    /\ \E e \in Entries(Fingerprints.data) : ~InRangeEntry(e)
    /\ \A e \in Entries(Fingerprints.data) : InRangeEntry(e) => ValidEntry(e)
    /\ Returned(TRUE)

\* C4: for an existing student, entries whose key is non-numeric or out of
\* range never raise, whatever their value: the call ends as it does for the
\* mapping without them, and without a fault when every in-range entry is valid.
C4_OutOfRangeSkipped ==
    (PutCalled /\ KnownStudent /\ IsDictArg) =>
        /\ response = xmlrpc_put_student_fingerprints(db_before, Identifier,
                          Dict(SelectSeq(Fingerprints.data, InRangeEntry))).ret
        /\ (\A e \in Entries(Fingerprints.data) : InRangeEntry(e) => ValidEntry(e))
               => response.kind = "return"

C4_Witness ==
    /\ PutCalled /\ KnownStudent /\ IsDictArg
    /\ \E e \in Entries(Fingerprints.data) : InRangeEntry(e) /\ ValidEntry(e)
    /\ \E e \in Entries(Fingerprints.data) : ~InRangeEntry(e) /\ e[2].type # "Binary"
    /\ Returned(TRUE)

\* C5: the validations run in a fixed order and the first failing one raises the
\* fault: unknown identifier first, then a fingerprints argument that is no
\* mapping, then any in-range entry that is no Binary or lacks the FP1 marker.
C5_CheckOrder ==
    PutCalled =>
        /\ ~KnownStudent => Faulted("No such student: '%s'", Identifier)
        /\ (KnownStudent /\ ~IsDictArg) =>
               Faulted("Invalid fingerprint data: must be dict'", "")
        /\ (KnownStudent /\ IsDictArg
              /\ \E e \in Entries(Fingerprints.data) : InRangeEntry(e) /\ ~ValidEntry(e))
               => response.kind = "raise"

C5_Witness ==
    /\ PutCalled /\ KnownStudent /\ IsDictArg
    /\ \E e \in Entries(Fingerprints.data) : InRangeEntry(e) /\ ~ValidEntry(e)
    /\ \E e \in Entries(Fingerprints.data) : InRangeEntry(e) /\ ValidEntry(e)
    /\ response.kind = "raise"

\* C6: a put_student_fingerprints call that returns true leaves the student's
\* record mapping each accepted slot to the submitted payload, so the store
\* differs from the one the call found.
C6_AcceptedSlotsStored ==
    (PutCalled /\ response.kind = "return" /\ response.value) =>
        /\ fake_student_db # db_before
        /\ \A e \in Entries(Fingerprints.data) :
               InRangeEntry(e) =>
                   /\ SlotOf(e[1]) \in DOMAIN fake_student_db[Identifier].items
                   /\ fake_student_db[Identifier].items[SlotOf(e[1])] = e[2]

\* C7: reset_student_db returns true and leaves the store empty; until
\* create_student is called again for it, put_student_fingerprints for an
\* identifier fails with the "No such student" fault; a second reset in a row
\* leaves the store as the first left it.
C7_ResetEmpties ==
    /\ called = "reset_student_db" => Returned(TRUE) /\ fake_student_db = <<>>
    /\ (called = "reset_student_db" /\ prev_called = "reset_student_db")
           => fake_student_db = db_before
    /\ (PutCalled /\ Identifier \notin since_reset)
           => Faulted("No such student: '%s'", Identifier)

C7_Witness ==
    /\ PutCalled
    /\ prev_called = "reset_student_db"
    /\ Identifier \in ever_created
    /\ Faulted("No such student: '%s'", Identifier)

\* C8: create_student returns true; called for an identifier that has a
\* record it leaves the store exactly as it was, and it never changes or
\* removes the record of another identifier.
C8_CreateIdempotent ==
    called = "create_student" =>
        /\ Returned(TRUE)
        /\ Identifier \in DOMAIN fake_student_db
        /\ KnownStudent => fake_student_db = db_before
        /\ ~KnownStudent => fake_student_db[Identifier].items = <<>>
        /\ \A other \in DOMAIN db_before \ {Identifier} :
               other \in DOMAIN fake_student_db
                   /\ fake_student_db[other] = db_before[other]

C8_Witness ==
    /\ called = "create_student"
    /\ prev_called = "create_student"
    /\ KnownStudent
    /\ DOMAIN fake_student_db = StudentIds
    /\ Returned(TRUE)

\* C9: the teardown of a virtual home during whose session no other one was
\* set up ends without error, leaves PATH and HOME as they were before setup
\* (same value, or absent) and leaves neither temporary directory on disk,
\* whether or not the test body removed the directories.
C9_SetupTeardownRestores ==
    (last.op = "teardown" /\ last.alone) =>
        /\ last.exc = "none"
        /\ environ = last.pre
        /\ last.dirs \cap disk = {}

C9_Witness ==
    /\ last.op = "teardown" /\ last.alone
    /\ last.missing = 2
    /\ DOMAIN environ = {"HOME"}
    /\ last.exc = "none"

\* C10: each active virtual home holds its own snapshot: what an instance recorded
\* at its setup stays what its _orig_vars holds while it is set up, and the
\* teardown of the instance set up last restores the environment that
\* instance found.
C10_OwnSnapshot ==
    /\ \A i \in Instances :
           inst[i].active =>
               \A n \in 1..Len(VarNames) :
                   OrigVarsOf(i)[VarNames[n]] = EnvGet(pre_env[i], VarNames[n])
    /\ (last.op = "teardown" /\ last.top) => environ = last.pre
====
